---- MODULE Spec2Model ----
(***************************************************************************)
(* A model of tinyimg's Rust core (src/rust/src/lib.rs):                   *)
(*   - tinypng_impl      : the batch driver (validation, per-file loop)    *)
(*   - apply_lossy_png   : the palette-size search (256-colour probe,      *)
(*                         bisection, final dithered quantization)         *)
(*   - sample_indices    : the strided sampler                             *)
(*   - palette_p95_delta_e : the per-colour-group p95 metric with its      *)
(*                         caller-owned scratch map                        *)
(* The clustering engine (exoquant), the codec (lodepng) and the lossless  *)
(* compressor (oxipng) are external: what they return is drawn             *)
(* nondeterministically from the values they can return.                   *)
(***************************************************************************)
EXTENDS Integers, Naturals, Sequences, FiniteSets, TLC

VARIABLES
    \* ---- apply_lossy_png (search) ----
    pc,            \* position in apply_lossy_png
    lossy,         \* the budget passed in (an f64)
    oracle,        \* how the image/quantizer pair answers: any metric, or a non-increasing one
    unique,        \* count_unique_colors(&q256)
    metric256,     \* metric of the 256-colour no-dither quantization
    lo, hi,        \* bisection bounds
    metric,        \* metric of the last candidate measured in the loop
    n,             \* the palette size chosen
    calls,         \* log of calls to the clustering engine
    \* ---- palette_p95_delta_e ----
    sample_keys,   \* colour key of every sampled source pixel
    des,           \* delta_e of every sampled pixel for the current candidate
    color_max_de,  \* the caller-owned scratch map
    p95,           \* the value returned by the last call
    evals,         \* number of calls made so far (capped, bookkeeping)
    stale,         \* the scratch map held other contents when the last call started
    \* ---- sample_indices ----
    s_pc, s_len, s_max, s_out,
    \* ---- tinypng_impl ----
    b_pc,          \* position in tinypng_impl
    inputs,        \* the input paths, each a sequence of characters
    outputs,       \* the output paths
    files,         \* the input paths that exist on disk
    fs,            \* the directories that exist on disk
    b_lossy,       \* the `lossy` argument
    verbose,       \* the `verbose` argument
    in_idx,        \* input_truncate_index
    out_idx,       \* output_truncate_index
    b_i,           \* index of the file the loop is at
    dirs,          \* outputs whose parent was missing at entry and exists now
    decoded, quantized, optimized, written,   \* files that got that far
    printed,       \* the lines reported by rprintln!
    result         \* what the call returned

searchVars == <<pc, lossy, oracle, unique, metric256, lo, hi, metric, n, calls>>
metricVars == <<sample_keys, des, color_max_de, p95, evals, stale>>
sampleVars == <<s_pc, s_len, s_max, s_out>>
batchArgs  == <<inputs, outputs, files, b_lossy, verbose>>
batchWork  == <<decoded, quantized, optimized, written, printed>>
batchVars  == <<b_pc, batchArgs, fs, in_idx, out_idx, b_i, dirs, batchWork, result>>
vars == <<searchVars, metricVars, sampleVars, batchVars>>

(***************************************************************************)
(* Bounds of the model                                                     *)
(***************************************************************************)
MaxMetric == 2      \* metric values are 0..MaxMetric
MaxBudget == 1      \* finite budgets are 1..MaxBudget (plus +inf)
MaxKeys == 21       \* distinct colour keys among the samples
MaxDup == 3         \* extra samples that share the first key
MaxDE == 2          \* per-sample distances are 0..MaxDE
MaxLen == 12        \* pixel counts handed to sample_indices
MaxSamples == 6     \* caps handed to sample_indices
MaxFiles == 2       \* batch length

(***************************************************************************)
(* Program constants                                                       *)
(***************************************************************************)
MaxPalette == 256

Min(a, b) == IF a < b THEN a ELSE b
Max(a, b) == IF a > b THEN a ELSE b
SetMax(S) == CHOOSE x \in S : \A y \in S : y <= x

(***************************************************************************)
(* f64 values: finite (an integer stands for the real), +-inf, NaN.        *)
(* Comparisons follow IEEE-754: anything compared with NaN is false.       *)
(***************************************************************************)
F(v) == [k |-> "fin", v |-> v]
PosInf == [k |-> "inf", v |-> 1]
NegInf == [k |-> "inf", v |-> -1]
NaN == [k |-> "nan", v |-> 0]

FLt(a, b) ==
    /\ a.k # "nan" /\ b.k # "nan"
    /\ \/ a.k = "fin" /\ b.k = "fin" /\ a.v < b.v
       \/ a.k = "fin" /\ b.k = "inf" /\ b.v = 1
       \/ a.k = "inf" /\ a.v = -1 /\ b.k = "fin"
       \/ a.k = "inf" /\ b.k = "inf" /\ a.v < b.v
FEq(a, b) == a.k # "nan" /\ b.k # "nan" /\ a = b
FGt(a, b) == FLt(b, a)
FLe(a, b) == FLt(a, b) \/ FEq(a, b)

(***************************************************************************)
(* apply_lossy_png: the palette-size search                                *)
(***************************************************************************)
SearchIdle ==
    /\ pc = "off" /\ lossy = NaN /\ oracle = [kind |-> "off", thr |-> 0, high |-> 0, low |-> 0]
    /\ unique = 0 /\ metric256 = 0 /\ lo = 0 /\ hi = 0 /\ metric = 0 /\ n = 0 /\ calls = <<>>

\* tinypng_impl line 79 calls apply_lossy_png only when lossy > 0.0
Budgets == {F(v) : v \in 1..MaxBudget} \cup {PosInf}

AnyOracle == [kind |-> "any", thr |-> 0, high |-> 0, low |-> 0]

\* a metric that is non-increasing in the palette size: `high` below thr, `low` from thr on
MonoOracles ==
    {[kind |-> "mono", thr |-> t, high |-> MaxMetric, low |-> l] :
        t \in 1..(MaxPalette + 1), l \in 0..MaxMetric}

MonoMetric(orc, size) == IF size < orc.thr THEN orc.high ELSE orc.low

\* the values palette_p95_delta_e can return for a quantization at `size`
MetricOutcomes(orc, size) ==
    IF orc.kind = "mono" THEN {MonoMetric(orc, size)} ELSE 0..MaxMetric

\* n.clamp(1, 256) in quantize_image / quantize_image_nodither
Clamp(size) == Max(1, Min(size, MaxPalette))

\* the ditherer handed to convert_to_indexed
NoDither == "None"
FinalDithererM == "None"
FinalDitherer == "Ordered"

quantize_image_nodither(size) == [n |-> Clamp(size), ditherer |-> NoDither]
quantize_image(size) == [n |-> Clamp(size), ditherer |-> FinalDitherer]

\* a log entry: the engine call, whether its result was measured, and the verdict
Measured(q, m, budget) ==
    [n |-> q.n, ditherer |-> q.ditherer, measured |-> TRUE, within |-> FLe(F(m), budget)]
Unmeasured(q) ==
    [n |-> q.n, ditherer |-> q.ditherer, measured |-> FALSE, within |-> FALSE]

\* line 167: metric256 > lossy
OverBudget(m, budget) == FGt(F(m), budget)

\* line 176: metric <= lossy
WithinBudgetM(m, budget) == FLt(F(m), budget)
WithinBudget(m, budget) == FLe(F(m), budget)

\* line 171: count_unique_colors(&q256).min(256)
InitialHiM(u) == MaxPalette
InitialHi(u) == Min(u, MaxPalette)

\* line 173
Mid(l, h) == (l + h) \div 2

\* line 179
NextLoStuck(mid) == mid
NextLoSkip(mid) == mid + 2
NextLo(mid) == mid + 1

\* lines 164-171: the 256-colour probe that fixes the upper bound
Quantize256 ==
    /\ pc = "start"
    /\ \E u \in 1..MaxPalette, m \in MetricOutcomes(oracle, MaxPalette) :
        /\ unique' = u
        /\ metric256' = m
        /\ calls' = Append(calls, Measured(quantize_image_nodither(MaxPalette), m, lossy))
        /\ IF OverBudget(m, lossy)
              THEN /\ n' = MaxPalette
                   /\ pc' = "found"
                   /\ UNCHANGED <<lo, hi>>
              ELSE /\ lo' = 1
                   /\ hi' = InitialHi(u)
                   /\ pc' = "bisect"
                   /\ UNCHANGED n
    /\ UNCHANGED <<lossy, oracle, metric>>
    /\ UNCHANGED <<metricVars, sampleVars, batchVars>>

\* lines 172-181: one iteration of the while loop
BisectStep ==
    /\ pc = "bisect"
    /\ lo < hi
    /\ LET mid == Mid(lo, hi) IN
       \E m \in MetricOutcomes(oracle, mid) :
        /\ metric' = m
        /\ calls' = Append(calls, Measured(quantize_image_nodither(mid), m, lossy))
        /\ IF WithinBudget(m, lossy)
              THEN hi' = mid /\ lo' = lo
              ELSE lo' = NextLo(mid) /\ hi' = hi
    /\ UNCHANGED <<pc, lossy, oracle, unique, metric256, n>>
    /\ UNCHANGED <<metricVars, sampleVars, batchVars>>

\* lines 172, 182: the loop condition fails and the block yields lo
BisectExit ==
    /\ pc = "bisect"
    /\ ~(lo < hi)
    /\ n' = lo
    /\ pc' = "found"
    /\ UNCHANGED <<lossy, oracle, unique, metric256, lo, hi, metric, calls>>
    /\ UNCHANGED <<metricVars, sampleVars, batchVars>>

\* lines 185-192: the delivered quantization, encoded without being measured
FinalQuantize ==
    /\ pc = "found"
    /\ calls' = Append(calls, Unmeasured(quantize_image(n)))
    /\ pc' = "done"
    /\ UNCHANGED <<lossy, oracle, unique, metric256, lo, hi, metric, n>>
    /\ UNCHANGED <<metricVars, sampleVars, batchVars>>

(***************************************************************************)
(* palette_p95_delta_e and its scratch map                                 *)
(***************************************************************************)
MetricIdle ==
    /\ sample_keys = <<>> /\ des = <<>> /\ color_max_de = <<>>
    /\ p95 = 0 /\ evals = 0 /\ stale = FALSE

EmptyMap == <<>>

\* HashMap::clear (line 242)
ClearM(m) == m
Clear(m) == EmptyMap

\* entry(key).or_insert(0.0) followed by the conditional store (lines 245-246)
Upsert(m, key, de) ==
    LET m1 == IF key \in DOMAIN m THEN m
              ELSE [x \in DOMAIN m \cup {key} |-> IF x = key THEN 0 ELSE m[x]]
    IN IF de > m1[key] THEN [m1 EXCEPT ![key] = de] ELSE m1

\* the loop over the samples (lines 243-247), from sample j on
RECURSIVE Refill(_, _, _, _)
Refill(m, keys, ds, j) ==
    IF j > Len(keys) THEN m
    ELSE Refill(Upsert(m, keys[j], ds[j]), keys, ds, j + 1)

\* color_max_de.values().copied().collect() (line 248), in the map's iteration order
RECURSIVE Values(_, _)
Values(m, ks) ==
    IF ks = {} THEN <<>>
    ELSE LET x == CHOOSE y \in ks : TRUE IN <<m[x]>> \o Values(m, ks \ {x})

\* insertion of one value into an ascending sequence
RECURSIVE Insert(_, _)
Insert(x, sq) ==
    IF sq = <<>> THEN <<x>>
    ELSE IF x <= Head(sq) THEN <<x>> \o sq
    ELSE <<Head(sq)>> \o Insert(x, Tail(sq))

\* des.sort_by(partial_cmp) (line 250)
RECURSIVE SortAsc(_)
SortAsc(sq) == IF sq = <<>> THEN <<>> ELSE Insert(Head(sq), SortAsc(Tail(sq)))

\* ((len as f64 * 0.95).ceil() as usize).saturating_sub(1) (line 251);
\* for an integer len, ceil(0.95 * len) = ceil(19 * len / 20)
PercentileIndexM(len) == Max(0, ((19 * len) \div 20) - 1)
PercentileIndex(len) == Max(0, ((19 * len + 19) \div 20) - 1)

\* lines 248-252 (sequences here are 1-based)
Percentile(m) ==
    LET sorted == SortAsc(Values(m, DOMAIN m)) IN
    IF sorted = <<>> THEN 0
    ELSE sorted[Min(PercentileIndex(Len(sorted)), Len(sorted) - 1) + 1]

\* the whole function: the value returned and the map it leaves behind
palette_p95_delta_e(keys, ds, scratch) ==
    LET m == Refill(Clear(scratch), keys, ds, 1) IN
    [value |-> Percentile(m), map |-> m]

\* the sampled keys of an image: k distinct colours, the first one carried by d more samples
KeySeq(k, d) == [j \in 1..(k + d) |-> IF j <= k THEN j ELSE 1]

\* per-sample distances of a candidate: v at sample i, 1 at the next sample, 0 elsewhere
DesPattern(len, i, v) ==
    [j \in 1..len |-> IF j = i THEN v ELSE IF j = (i % len) + 1 THEN 1 ELSE 0]

DesPatterns(len) ==
    IF len = 0 THEN {<<>>}
    ELSE {DesPattern(len, i, v) : i \in 1..len, v \in 0..MaxDE}

\* one evaluation of a candidate inside apply_lossy_png (lines 165 and 175)
Evaluate ==
    /\ \E d \in DesPatterns(Len(sample_keys)) :
        LET r == palette_p95_delta_e(sample_keys, d, color_max_de) IN
        /\ des' = d
        /\ p95' = r.value
        /\ color_max_de' = r.map
        /\ stale' = (color_max_de # EmptyMap /\ color_max_de # color_max_de')
    /\ evals' = Min(evals + 1, 2)
    /\ UNCHANGED sample_keys
    /\ UNCHANGED <<searchVars, sampleVars, batchVars>>

(***************************************************************************)
(* sample_indices                                                          *)
(***************************************************************************)
SampleIdle == s_pc = "off" /\ s_len = 0 /\ s_max = 1 /\ s_out = <<>>

\* (0..len).step_by(step) from position i on (line 214)
RECURSIVE StepBy(_, _, _)
StepBy(i, len, step) ==
    IF i >= len THEN <<>> ELSE <<i>> \o StepBy(i + step, len, step)

\* lines 209-215
sample_indices(len, max_samples) ==
    IF len = 0 THEN <<>>
    ELSE LET step == Max(len \div max_samples, 1) IN StepBy(0, len, step)

CallSample ==
    /\ s_pc = "call"
    /\ s_out' = sample_indices(s_len, s_max)
    /\ s_pc' = "done"
    /\ UNCHANGED <<s_len, s_max>>
    /\ UNCHANGED <<searchVars, metricVars, batchVars>>

(***************************************************************************)
(* tinypng_impl: the batch driver                                          *)
(*                                                                         *)
(* A path is a sequence of characters.  "E" stands for a character whose   *)
(* UTF-8 encoding takes two bytes (such as e-acute); every other character *)
(* takes one.  Rust's str::len, rfind and slicing count bytes, while       *)
(* chars().nth counts characters.                                          *)
(***************************************************************************)
BatchIdle ==
    /\ b_pc = "off" /\ inputs = <<>> /\ outputs = <<>> /\ files = {} /\ fs = {}
    /\ b_lossy = F(0) /\ verbose = FALSE /\ in_idx = 0 /\ out_idx = 0 /\ b_i = 0
    /\ dirs = {} /\ decoded = {} /\ quantized = {} /\ optimized = {} /\ written = {}
    /\ printed = <<>> /\ result = "none"

\* the paths a batch is drawn from
InPaths == {<<"a">>, <<"E", "E", "/", "a">>, <<"E", "E", "/", "b">>}
OutPaths ==
    {<<"a">>, <<"p", "/", "a">>, <<"p", "/", "q", "/", "a">>,
     <<"E", "E", "/", "a">>, <<"E", "E", "/", "a", "b">>}

PathSeqs(P) == UNION {[1..k -> P] : k \in 0..MaxFiles}
Range(sq) == {sq[i] : i \in 1..Len(sq)}

\* the f64 values R can pass as `lossy`
LossyArgs == {F(v) : v \in (-1)..MaxBudget} \cup {PosInf, NegInf, NaN}

\* UTF-8 length of a character
Width(c) == IF c = "E" THEN 2 ELSE 1

\* number of bytes taken by the first k characters of s
RECURSIVE ByteOff(_, _)
ByteOff(s, k) == IF k = 0 THEN 0 ELSE ByteOff(s, k - 1) + Width(s[k])

\* str::len
ByteLen(s) == ByteOff(s, Len(s))

\* c == '/' || c == '\\' (lines 294, 302, 319)
IsSep(c) == c \in {"/", "\\"}

\* path.rfind(separator): the byte index of the last separator, -1 for None
RFindSep(s) ==
    LET P == {k \in 1..Len(s) : IsSep(s[k])} IN
    IF P = {} THEN -1 ELSE ByteOff(s, SetMax(P) - 1)

\* s.chars().nth(pos): the character at 0-based character index pos, "none" for None
CharNth(s, pos) == IF pos < Len(s) THEN s[pos + 1] ELSE "none"

\* the for loop of find_truncate_index (lines 311-328), from position pos on
RECURSIVE TruncLoop(_, _, _, _)
TruncLoop(paths, pos, last, tidx) ==
    IF pos > last THEN [panic |-> FALSE, idx |-> tidx]
    ELSE LET ch == CharNth(paths[1], pos) IN
         IF ch = "none" THEN [panic |-> TRUE, idx |-> 0]
         ELSE IF \A i \in 1..Len(paths) : CharNth(paths[i], pos) = ch
              THEN TruncLoop(paths, pos + 1, last, IF IsSep(ch) THEN pos + 1 ELSE tidx)
              ELSE [panic |-> FALSE, idx |-> tidx]

\* lines 286-329
find_truncate_index(paths) ==
    IF paths = <<>> THEN [panic |-> FALSE, idx |-> 0]
    ELSE IF Len(paths) = 1
         THEN [panic |-> FALSE,
               idx |-> IF RFindSep(paths[1]) >= 0 THEN RFindSep(paths[1]) + 1 ELSE 0]
    ELSE IF RFindSep(paths[1]) < 0 THEN [panic |-> FALSE, idx |-> 0]
    ELSE TruncLoop(paths, 0, RFindSep(paths[1]), 0)

\* lines 332-337: path[index..] panics when index is not on a character boundary
truncate_path(path, index) ==
    IF index = 0 \/ index >= ByteLen(path) THEN [panic |-> FALSE, out |-> path]
    ELSE LET B == {k \in 0..Len(path) : ByteOff(path, k) = index} IN
         IF B = {} THEN [panic |-> TRUE, out |-> <<>>]
         ELSE [panic |-> FALSE, out |-> SubSeq(path, SetMax(B) + 1, Len(path))]

\* Path::parent: the path up to its last '/', empty for a bare file name
Parent(path) ==
    LET P == {k \in 1..Len(path) : path[k] = "/"} IN
    IF P = {} THEN <<>> ELSE SubSeq(path, 1, SetMax(P) - 1)

\* a directory and the directories above it
Ancestors(d) ==
    {SubSeq(d, 1, k) : k \in {j \in 1..Len(d) : j = Len(d) \/ d[j + 1] = "/"}}

\* what a failing create_dir_all(d) may have created: nothing, or the
\* directories down to one strictly above d
PartialCreations(d) == {{}} \cup {Ancestors(a) : a \in Ancestors(d) \ {d}}

\* lines 45-53 from output i on, with `cur` the directories that exist: the
\* states of the disk the loop can end in, and whether it ran to its end
RECURSIVE DirWalk(_, _, _)
DirWalk(outs, i, cur) ==
    IF i > Len(outs) THEN {[fs |-> cur, ok |-> TRUE]}
    ELSE LET d == Parent(outs[i]) IN
         IF d \in cur THEN DirWalk(outs, i + 1, cur)
         \* "".exists() is false and create_dir_all("") returns Ok at once
         ELSE IF d = <<>> THEN DirWalk(outs, i + 1, cur)
         ELSE DirWalk(outs, i + 1, cur \cup Ancestors(d))
              \cup {[fs |-> cur \cup A, ok |-> FALSE] : A \in PartialCreations(d)}

\* lines 37-42: the loop over every input path
AllInputsExistM(ins, onDisk) == ins = <<>> \/ ins[1] \in onDisk
AllInputsExist(ins, onDisk) == \A i \in 1..Len(ins) : ins[i] \in onDisk

\* line 79: lossy > 0.0
LossyEnabled(l) == FGt(l, F(0))

\* lines 31-34
CheckLength ==
    /\ b_pc = "start"
    /\ IF Len(inputs) # Len(outputs)
          THEN b_pc' = "returned" /\ result' = "err_length"
          ELSE b_pc' = "check" /\ UNCHANGED result
    /\ UNCHANGED <<batchArgs, fs, in_idx, out_idx, b_i, dirs, batchWork>>
    /\ UNCHANGED <<searchVars, metricVars, sampleVars>>

\* lines 36-42
CheckInputs ==
    /\ b_pc = "check"
    /\ IF AllInputsExist(inputs, files)
          THEN b_pc' = "dirs" /\ UNCHANGED result
          ELSE b_pc' = "returned" /\ result' = "err_missing"
    /\ UNCHANGED <<batchArgs, fs, in_idx, out_idx, b_i, dirs, batchWork>>
    /\ UNCHANGED <<searchVars, metricVars, sampleVars>>

\* lines 44-53: missing parents are created in order; create_dir_all may fail
CreateDirs ==
    /\ b_pc = "dirs"
    /\ \E w \in DirWalk(outputs, 1, fs) :
        /\ fs' = w.fs
        /\ dirs' = {i \in 1..Len(outputs) :
                      Parent(outputs[i]) \notin fs /\ Parent(outputs[i]) \in w.fs}
        /\ IF w.ok
              THEN b_pc' = "opts" /\ UNCHANGED result
              ELSE b_pc' = "returned" /\ result' = "err_dir"
    /\ UNCHANGED <<batchArgs, in_idx, out_idx, b_i, batchWork>>
    /\ UNCHANGED <<searchVars, metricVars, sampleVars>>

\* lines 55-66: the options, and the display prefixes when verbose; the
\* unwrap on line 314 panics, which aborts the call
SetupDisplay ==
    /\ b_pc = "opts"
    /\ LET ti == IF verbose THEN find_truncate_index(inputs) ELSE [panic |-> FALSE, idx |-> 0]
           to == IF verbose THEN find_truncate_index(outputs) ELSE [panic |-> FALSE, idx |-> 0]
       IN IF ti.panic \/ to.panic
             THEN /\ b_pc' = "returned" /\ result' = "panic"
                  /\ UNCHANGED <<in_idx, out_idx, b_i>>
             ELSE /\ in_idx' = ti.idx /\ out_idx' = to.idx
                  /\ b_pc' = "loop" /\ b_i' = 1
                  /\ UNCHANGED result
    /\ UNCHANGED <<batchArgs, fs, dirs, batchWork>>
    /\ UNCHANGED <<searchVars, metricVars, sampleVars>>

\* what the external calls of one iteration can do to file i
FileOutcomes(ins, onDisk, i, l) ==
    IF ins[i] \notin onDisk THEN {"decode_err"}
    ELSE IF LossyEnabled(l)
         THEN {"decode_err", "encode_err", "optimize_err", "write_err", "ok"}
         ELSE {"decode_err", "write_err", "ok"}

\* lines 69-132: one iteration of the loop over the files. A file that was
\* processed is a PNG, so input_size > 0 and the verbose report is made.
ProcessFile ==
    /\ b_pc = "loop"
    /\ b_i <= Len(inputs)
    /\ \E o \in FileOutcomes(inputs, files, b_i, b_lossy) :
        /\ decoded' = IF o # "decode_err" THEN decoded \cup {b_i} ELSE decoded
        /\ quantized' = IF LossyEnabled(b_lossy) /\ o # "decode_err"
                           THEN quantized \cup {b_i} ELSE quantized
        /\ optimized' = IF o \in {"write_err", "ok"} THEN optimized \cup {b_i} ELSE optimized
        /\ written' = IF o = "ok" THEN written \cup {b_i} ELSE written
        /\ IF o # "ok"
              THEN /\ b_pc' = "returned" /\ result' = "err_file"
                   /\ UNCHANGED <<b_i, printed>>
              ELSE IF ~verbose
              THEN /\ b_i' = b_i + 1
                   /\ UNCHANGED <<b_pc, result, printed>>
              ELSE LET di == truncate_path(inputs[b_i], in_idx)
                       do == truncate_path(outputs[b_i], out_idx)
                   IN IF di.panic \/ do.panic
                         THEN /\ b_pc' = "returned" /\ result' = "panic"
                              /\ UNCHANGED <<b_i, printed>>
                         ELSE /\ printed' = Append(printed,
                                     IF inputs[b_i] = outputs[b_i]
                                        THEN <<do.out>> ELSE <<di.out, do.out>>)
                              /\ b_i' = b_i + 1
                              /\ UNCHANGED <<b_pc, result>>
    /\ UNCHANGED <<batchArgs, fs, in_idx, out_idx, dirs>>
    /\ UNCHANGED <<searchVars, metricVars, sampleVars>>

\* line 134
Finish ==
    /\ b_pc = "loop"
    /\ b_i > Len(inputs)
    /\ b_pc' = "returned"
    /\ result' = "ok"
    /\ UNCHANGED <<batchArgs, fs, in_idx, out_idx, b_i, dirs, batchWork>>
    /\ UNCHANGED <<searchVars, metricVars, sampleVars>>

(***************************************************************************)
(* Specifications                                                          *)
(***************************************************************************)
InitSearch ==
    /\ pc = "start" /\ lossy \in Budgets /\ oracle = AnyOracle
    /\ unique = 0 /\ metric256 = 0 /\ lo = 0 /\ hi = 0 /\ metric = 0 /\ n = 0 /\ calls = <<>>
    /\ MetricIdle /\ SampleIdle /\ BatchIdle

InitMono ==
    /\ pc = "start" /\ lossy \in Budgets /\ oracle \in MonoOracles
    /\ unique = 0 /\ metric256 = 0 /\ lo = 0 /\ hi = 0 /\ metric = 0 /\ n = 0 /\ calls = <<>>
    /\ MetricIdle /\ SampleIdle /\ BatchIdle

NextSearch == Quantize256 \/ BisectStep \/ BisectExit \/ FinalQuantize

Spec == InitSearch /\ [][NextSearch]_vars
\* apply_lossy_png is straight-line code: whenever it can take a step it does
SpecFair == Spec /\ WF_vars(NextSearch)
SpecMono == InitMono /\ [][NextSearch]_vars

InitMetric ==
    /\ \E k \in 0..MaxKeys, d \in 0..MaxDup :
        /\ (k = 0 => d = 0)
        /\ sample_keys = KeySeq(k, d)
    /\ des = <<>> /\ color_max_de = EmptyMap /\ p95 = 0 /\ evals = 0 /\ stale = FALSE
    /\ SearchIdle /\ SampleIdle /\ BatchIdle

NextMetric == Evaluate
SpecMetric == InitMetric /\ [][NextMetric]_vars

InitSample ==
    /\ s_pc = "call" /\ s_len \in 0..MaxLen /\ s_max \in 1..MaxSamples /\ s_out = <<>>
    /\ SearchIdle /\ MetricIdle /\ BatchIdle

NextSample == CallSample
SpecSample == InitSample /\ [][NextSample]_vars

InitBatch ==
    /\ b_pc = "start"
    /\ inputs \in PathSeqs(InPaths) /\ outputs \in PathSeqs(OutPaths)
    /\ files \in SUBSET Range(inputs)
    /\ fs \in {S \in SUBSET (UNION {Ancestors(Parent(outputs[i])) : i \in 1..Len(outputs)}) :
                 \A d \in S : Ancestors(d) \subseteq S}
    /\ b_lossy \in LossyArgs /\ verbose \in BOOLEAN
    /\ in_idx = 0 /\ out_idx = 0 /\ b_i = 0
    /\ dirs = {} /\ decoded = {} /\ quantized = {} /\ optimized = {} /\ written = {}
    /\ printed = <<>> /\ result = "none"
    /\ SearchIdle /\ MetricIdle /\ SampleIdle

NextBatch == CheckLength \/ CheckInputs \/ CreateDirs \/ SetupDisplay \/ ProcessFile \/ Finish
SpecBatch == InitBatch /\ [][NextBatch]_vars

(***************************************************************************)
(* Properties of the palette-size search                                   *)
(***************************************************************************)
Searched == pc \in {"found", "done"}
ProbeOver == FGt(F(metric256), lossy)
UpperBound == IF ProbeOver THEN 256 ELSE Min(256, unique)

\* the candidates measured inside the loop, by verdict
LoopCalls == {i \in 2..Len(calls) : calls[i].measured}
MeasuredWithin == {calls[i].n : i \in {j \in LoopCalls : calls[j].within}}
MeasuredOver == {calls[i].n : i \in {j \in LoopCalls : ~calls[j].within}}

\* C1: the palette size chosen is never outside [1, upper bound], where the
\* upper bound is 256 when the 256-colour probe exceeds the budget and
\* min(256, distinct colours of the probe) otherwise; so 1 <= n <= 256.
C1_SizeInRange ==
    /\ Searched => (1 <= n /\ n <= UpperBound /\ n <= 256)
    /\ pc = "bisect" => (1 <= lo /\ lo <= hi /\ hi <= UpperBound)

C1_Witness ==
    /\ pc = "done" /\ ~ProbeOver
    /\ unique > 1 /\ unique < 256 /\ n = unique /\ Len(calls) > 3

\* C2: for a metric that is non-increasing in the palette size, the size the
\* loop ends on is the least size in [1, upper bound] whose metric is within
\* the budget, or the upper bound when no such size exists.
C2_MinimalSize ==
    (pc = "found" /\ oracle.kind = "mono") =>
        LET ok == {sz \in 1..UpperBound : FLe(F(MonoMetric(oracle, sz)), lossy)} IN
        IF ok = {} THEN n = UpperBound
        ELSE n \in ok /\ \A sz \in ok : n <= sz

C2_Witness ==
    /\ pc = "found" /\ oracle.kind = "mono" /\ ~ProbeOver
    /\ 1 < n /\ n < UpperBound /\ n = oracle.thr
    /\ FEq(F(oracle.low), lossy)

\* C8: every quantization measured against the budget uses no dithering;
\* the only dithered quantization is the last call, made after the search at
\* the size found, and it is never measured.
C8_DitherOnlyAtEnd ==
    /\ \A i \in 1..Len(calls) :
        /\ calls[i].measured => calls[i].ditherer = "None"
        /\ calls[i].ditherer # "None" =>
            /\ pc = "done" /\ i = Len(calls)
            /\ calls[i].n = n /\ ~calls[i].measured
    /\ pc = "done" => Cardinality({i \in 1..Len(calls) : calls[i].ditherer = "Ordered"}) = 1
    /\ pc # "done" => \A i \in 1..Len(calls) : calls[i].measured

C8_Witness ==
    /\ pc = "done" /\ Len(calls) >= 4
    /\ calls[Len(calls)].ditherer = "Ordered" /\ calls[Len(calls)].n = n

\* C9: whatever the metric answers, each loop iteration strictly shrinks
\* hi - lo and keeps lo <= hi, at most 8 candidates are quantized in the
\* loop, and the search ends.
C9_Terminates ==
    /\ [][BisectStep => (hi' - lo' < hi - lo /\ lo' <= hi')]_vars
    /\ [](Cardinality(LoopCalls) <= 8)
    /\ <>(pc = "done")

C9_Witness == pc = "found" /\ Cardinality(LoopCalls) = 8 /\ lo = hi

\* C10: with no monotonicity assumed, hi is the initial upper bound or a size
\* measured within budget, and lo is 1 or one more than a size measured over
\* budget; so a size returned by the loop, unless it is the initial upper
\* bound, was measured within budget, and the size below it (if any) over.
C10_BoundsAreMeasured ==
    (pc = "bisect" \/ (Searched /\ ~ProbeOver)) =>
        /\ hi = Min(256, unique) \/ hi \in MeasuredWithin
        /\ lo = 1 \/ (lo - 1) \in MeasuredOver
        /\ Searched =>
            /\ n # Min(256, unique) => n \in MeasuredWithin
            /\ n > 1 => (n - 1) \in MeasuredOver

\* a run that moved both bounds: the size returned lies strictly inside the range
C10_Witness ==
    /\ pc = "found" /\ ~ProbeOver
    /\ 1 < n /\ n < Min(256, unique)
    /\ n \in MeasuredWithin /\ (n - 1) \in MeasuredOver
    /\ Cardinality(MeasuredWithin) >= 2 /\ Cardinality(MeasuredOver) >= 2

(***************************************************************************)
(* Properties of the metric                                                *)
(***************************************************************************)
SampleKeySet == {sample_keys[j] : j \in 1..Len(sample_keys)}
\* the largest distance among the samples that carry key k
GroupMax(k) == SetMax({des[j] : j \in {i \in 1..Len(sample_keys) : sample_keys[i] = k}})
\* the least integer c with c >= 0.95 * count
Ceil95(count) == CHOOSE c \in 0..count : 20 * c >= 19 * count /\ 20 * (c - 1) < 19 * count

\* C6: the value returned is the one at rank ceil(0.95 k) - 1 (at most k - 1)
\* of the ascending per-key maxima, k the number of distinct keys; it is 0
\* with no samples; it is a function of the per-key maxima alone, and with two
\* keys it is the larger of the two maxima.
C6_PercentileOfGroupMaxima ==
    evals > 0 =>
        LET K == SampleKeySet
            k == Cardinality(K)
        IN IF k = 0 THEN p95 = 0
           ELSE LET rank == Min(Ceil95(k) - 1, k - 1) IN
                /\ \E g \in K : p95 = GroupMax(g)
                /\ Cardinality({g \in K : GroupMax(g) < p95}) <= rank
                /\ Cardinality({g \in K : GroupMax(g) <= p95}) >= rank + 1
                /\ k = 2 => p95 = SetMax({GroupMax(g) : g \in K})

\* twenty keys or more, so that the rank is below the top: the value returned
\* is the second largest maximum, while a sample of key 1 holds the largest
C6_Witness ==
    /\ evals > 0 /\ Cardinality(SampleKeySet) >= 20
    /\ Len(sample_keys) > Cardinality(SampleKeySet)
    /\ p95 = 1 /\ GroupMax(1) = 2

\* C7: whatever an earlier evaluation left in the scratch map, the value
\* returned and the map left behind are those of a call that starts from an
\* empty map.
C7_ScratchReset ==
    evals > 0 =>
        LET fresh == palette_p95_delta_e(sample_keys, des, EmptyMap) IN
        /\ color_max_de = fresh.map
        /\ p95 = fresh.value
        /\ DOMAIN color_max_de = SampleKeySet
        /\ \A g \in SampleKeySet : color_max_de[g] = GroupMax(g)

C7_Witness == evals = 2 /\ stale /\ Len(sample_keys) >= 2 /\ p95 < MaxDE

(***************************************************************************)
(* Properties of the sampler                                               *)
(***************************************************************************)
\* C4: sample_indices returns at most max_samples positions, strictly
\* increasing, starting at 0 when len > 0, inside [0, len), spaced by
\* max(1, len / max_samples).
C4_SampleWithinCap ==
    s_pc = "done" =>
        LET stride == Max(1, s_len \div s_max) IN
        /\ Len(s_out) <= s_max
        /\ \A j \in 1..Len(s_out) : 0 <= s_out[j] /\ s_out[j] < s_len
        /\ \A j \in 1..(Len(s_out) - 1) : s_out[j + 1] = s_out[j] + stride
        /\ s_len > 0 => (Len(s_out) > 0 /\ s_out[1] = 0)

(***************************************************************************)
(* Properties of the batch driver                                          *)
(***************************************************************************)
NothingProcessed == decoded = {} /\ quantized = {} /\ optimized = {} /\ written = {}

\* C3: a negative, NaN or infinite budget is rejected with an error before
\* any pixel processing: nothing is decoded, quantized, optimized or written.
C3_BudgetValidated ==
    (b_lossy.k \in {"nan", "inf"} \/ FLt(b_lossy, F(0))) =>
        /\ NothingProcessed
        /\ b_pc = "returned" => result # "ok"

\* C5: when the two vectors differ in length or some input path does not
\* exist, the call returns an error and no file of the batch is decoded,
\* optimized or written, wherever the offending entry is.
C5_BatchCheckedFirst ==
    (Len(inputs) # Len(outputs) \/ \E i \in 1..Len(inputs) : inputs[i] \notin files) =>
        /\ NothingProcessed /\ printed = <<>>
        /\ b_pc \notin {"dirs", "opts", "loop"}
        /\ b_pc = "returned" => result \in {"err_length", "err_missing"}

\* the missing input is the last of the batch, after one that exists
C5_Witness ==
    /\ b_pc = "returned" /\ result = "err_missing"
    /\ Len(inputs) = 2 /\ Len(outputs) = 2
    /\ inputs[1] \in files /\ inputs[2] \notin files

====
